---- MODULE Spec2Model ----
(***************************************************************************)
(* Model of src/transaction.js: the Transaction value, its binary codec    *)
(* (__byteLength, __toBuffer, fromBuffer) and the two signature hashers    *)
(* (hashForSignature, hashForWitnessV0).                                   *)
(*                                                                         *)
(* Buffers are sequences of bytes (0..255).  A 32-bit unsigned field (an   *)
(* input's index and sequence, the locktime) is held as the pair of its    *)
(* high and low 16 bits, <<hi, lo>>, so that 0xffffffff has a value here;  *)
(* every other number is an integer below 2^31.                            *)
(* Byte offsets are 0-based as in the source; sequences are 1-based, so    *)
(* the byte at offset o is buffer[o + 1].                                  *)
(***************************************************************************)
EXTENDS Integers, Sequences, FiniteSets, TLC

VARIABLES tx, ret

vars == <<tx, ret>>

\* ------------------------------------------------------------------ bounds

MaxIns == 2

MaxOuts == 2

\* ------------------------------------------------------- bytes and numbers

Null == "null"

Min(a, b) == IF a < b THEN a ELSE b

\* K applied to the value of v, which is evaluated once.
Bind(v, K(_)) == CHOOSE y \in {K(x) : x \in {v}} : TRUE

\* Buffer.from(hex, 'hex'): two hex digits per byte, in the order written.
\* The hex text is given as its sequence of digit values.
BufferFromHex(digits) ==
  [i \in 1..(Len(digits) \div 2) |-> digits[2 * i - 1] * 16 + digits[2 * i]]

\* n copies of the hex digit pair d1 d2
HexRepeat(d1, d2, n) == [i \in 1..(2 * n) |-> IF i % 2 = 1 THEN d1 ELSE d2]

EMPTY_SCRIPT == <<>>

EMPTY_WITNESS == <<>>

ZERO == BufferFromHex(HexRepeat(0, 0, 32))

ONE == BufferFromHex(HexRepeat(0, 0, 31) \o <<0, 1>>)

VALUE_UINT64_MAX == BufferFromHex(HexRepeat(15, 15, 8))

BLANK_OUTPUT == [script |-> EMPTY_SCRIPT, valueBuffer |-> VALUE_UINT64_MAX]

SIGHASH_ALL == 1

SIGHASH_NONE == 2

SIGHASH_SINGLE == 3

SIGHASH_ANYONECANPAY == 128

ADVANCED_TRANSACTION_MARKER == 0

ADVANCED_TRANSACTION_FLAG == 1

\* Variant of BaseMode: the mode compared without the 0x1f mask.
BaseModeUnmasked(hashType) == hashType

\* hashType & 0x1f
BaseMode(hashType) == hashType % 32

\* hashType & Transaction.SIGHASH_ANYONECANPAY, as a truth value
AnyoneCanPay(hashType) == (hashType \div SIGHASH_ANYONECANPAY) % 2 = 1

\* The k low bytes of n, least significant first.  \div floors and % is
\* non-negative, so a negative n comes out in two's complement, as
\* writeInt32LE writes it.
LEBytes(n, k) ==
  [i \in 1..k |-> (n \div (IF i = 1 THEN 1 ELSE IF i = 2 THEN 256
                           ELSE IF i = 3 THEN 65536 ELSE 16777216)) % 256]

writeUInt8(i) == <<i % 256>>

\* The 32-bit unsigned number n, 0 <= n < 2^31, as a field holds it.
UInt32(n) == <<n \div 65536, n % 65536>>

\* Transaction.DEFAULT_SEQUENCE = 0xffffffff
DEFAULT_SEQUENCE == <<65535, 65535>>

\* buffer.writeUInt32LE of a field <<hi, lo>>: the low half first
writeUInt32LE(i) == LEBytes(i[2], 2) \o LEBytes(i[1], 2)

writeInt32LE(i) == LEBytes(i, 4)

\* bufferutils.writeUInt64LE: the low word, then floor(value / 2^32)
writeUInt64LE(value) ==
  LEBytes(value, 4) \o LEBytes((value \div 65536) \div 65536, 4)

\* varuint.encodingLength
encodingLength(n) ==
  IF n < 253 THEN 1 ELSE IF n <= 65535 THEN 3 ELSE 5

\* varuint.encode: the minimal compact-size form
writeVarInt(n) ==
  IF n < 253 THEN <<n>>
  ELSE IF n <= 65535 THEN <<253>> \o LEBytes(n, 2)
  ELSE <<254>> \o LEBytes(n, 4)

writeVarSlice(slice) == writeVarInt(Len(slice)) \o slice

RECURSIVE Concat(_)
\* the chunks of a sequence of byte strings, one after the other
Concat(chunks) ==
  IF chunks = <<>> THEN <<>> ELSE Head(chunks) \o Concat(Tail(chunks))

writeVector(vector) ==
  writeVarInt(Len(vector))
    \o Concat([i \in 1..Len(vector) |-> writeVarSlice(vector[i])])

RECURSIVE Sum(_)
Sum(ns) == IF ns = <<>> THEN 0 ELSE Head(ns) + Sum(Tail(ns))

\* ------------------------------------------------------------ size accounting

\* Variant of varSliceSize: the length prefix counted as one byte.
varSliceSizeOneBytePrefix(someScript) == 1 + Len(someScript)

varSliceSize(someScript) == encodingLength(Len(someScript)) + Len(someScript)

vectorSize(someVector) ==
  encodingLength(Len(someVector))
    + Sum([i \in 1..Len(someVector) |-> varSliceSize(someVector[i])])

hasWitnesses(t) == \E i \in 1..Len(t.ins) : Len(t.ins[i].witness) # 0

__byteLength(t, allowWitness) ==
  LET hasW == allowWitness /\ hasWitnesses(t) IN
    (IF hasW THEN 10 ELSE 8)
    + encodingLength(Len(t.ins))
    + encodingLength(Len(t.outs))
    + Sum([i \in 1..Len(t.ins) |-> 40 + varSliceSize(t.ins[i].script)])
    + Sum([i \in 1..Len(t.outs) |-> 8 + varSliceSize(t.outs[i].script)])
    + (IF hasW THEN Sum([i \in 1..Len(t.ins) |-> vectorSize(t.ins[i].witness)])
       ELSE 0)

weight(t) == __byteLength(t, FALSE) * 3 + __byteLength(t, TRUE)

\* ------------------------------------------------------------------ encoder

\* the body of the this.ins.forEach of __toBuffer
writeTxIn(txIn) ==
  txIn.hash \o writeUInt32LE(txIn.index) \o writeVarSlice(txIn.script)
    \o writeUInt32LE(txIn.sequence)

\* the body of the this.outs.forEach of __toBuffer
writeTxOut(txOut) ==
  (IF "valueBuffer" \in DOMAIN txOut THEN txOut.valueBuffer
   ELSE writeUInt64LE(txOut.value))
    \o writeVarSlice(txOut.script)

\* The bytes __toBuffer writes, from initialOffset on; the final offset is
\* initialOffset plus their number.
__toBuffer(t, allowWitness) ==
  LET hasW == allowWitness /\ hasWitnesses(t) IN
    writeInt32LE(t.version)
    \o (IF hasW THEN writeUInt8(ADVANCED_TRANSACTION_MARKER)
                     \o writeUInt8(ADVANCED_TRANSACTION_FLAG)
        ELSE <<>>)
    \o writeVarInt(Len(t.ins))
    \o Concat([i \in 1..Len(t.ins) |-> writeTxIn(t.ins[i])])
    \o writeVarInt(Len(t.outs))
    \o Concat([i \in 1..Len(t.outs) |-> writeTxOut(t.outs[i])])
    \o (IF hasW THEN Concat([i \in 1..Len(t.ins) |-> writeVector(t.ins[i].witness)])
        ELSE <<>>)
    \o writeUInt32LE(t.locktime)

\* ------------------------------------------------------------------ decoder

\* A read either throws or yields a value and the offset after it.
Throw(e) == [ok |-> FALSE, err |-> e]

Got(v, off) == [ok |-> TRUE, v |-> v, off |-> off]

\* Node's bounds check of a fixed-width read
InRange(buffer, offset, n) == offset >= 0 /\ offset + n <= Len(buffer)

U16(buffer, offset) == buffer[offset + 1] + buffer[offset + 2] * 256

U32(buffer, offset) ==
  buffer[offset + 1] + buffer[offset + 2] * 256 + buffer[offset + 3] * 65536
    + buffer[offset + 4] * 16777216

\* buffer.slice clamps to the buffer's end and never throws
readSlice(buffer, offset, n) ==
  Got(SubSeq(buffer, Min(offset, Len(buffer)) + 1, Min(offset + n, Len(buffer))),
      offset + n)

readUInt8(buffer, offset) ==
  IF InRange(buffer, offset, 1) THEN Got(buffer[offset + 1], offset + 1)
  ELSE Throw("RangeError")

readUInt32(buffer, offset) ==
  IF InRange(buffer, offset, 4)
  THEN Got(<<U16(buffer, offset + 2), U16(buffer, offset)>>, offset + 4)
  ELSE Throw("RangeError")

\* two's complement: a top byte of 128 or more makes the number negative
readInt32(buffer, offset) ==
  IF InRange(buffer, offset, 4)
  THEN Got(buffer[offset + 1] + buffer[offset + 2] * 256
             + buffer[offset + 3] * 65536
             + (IF buffer[offset + 4] >= 128 THEN buffer[offset + 4] - 256
                ELSE buffer[offset + 4]) * 16777216,
           offset + 4)
  ELSE Throw("RangeError")

\* The high word of a 64-bit read is 2^21 or more: the number is above
\* 2^53 - 1 (bufferutils' verifuint and varuint's checkUInt53 both throw).
Above53(buffer, offset) == buffer[offset + 8] > 0 \/ buffer[offset + 7] >= 32

U64(buffer, offset) ==
  U32(buffer, offset) + U32(buffer, offset + 4) * 65536 * 65536

\* bufferutils.readUInt64LE
readUInt64(buffer, offset) ==
  IF ~InRange(buffer, offset, 8) THEN Throw("RangeError")
  ELSE IF Above53(buffer, offset) THEN Throw("RangeError")
  ELSE Got(U64(buffer, offset), offset + 8)

\* varuint.decode: the form is chosen by the first byte alone
readVarInt(buffer, offset) ==
  IF ~InRange(buffer, offset, 1) THEN Throw("RangeError")
  ELSE LET first == buffer[offset + 1] IN
    IF first < 253 THEN Got(first, offset + 1)
    ELSE IF first = 253
      THEN IF InRange(buffer, offset + 1, 2)
           THEN Got(U16(buffer, offset + 1), offset + 3) ELSE Throw("RangeError")
    ELSE IF first = 254
      THEN IF InRange(buffer, offset + 1, 4)
           THEN Got(U32(buffer, offset + 1), offset + 5) ELSE Throw("RangeError")
    ELSE IF ~InRange(buffer, offset + 1, 8) THEN Throw("RangeError")
    ELSE IF Above53(buffer, offset + 1) THEN Throw("RangeError")
    ELSE Got(U64(buffer, offset + 1), offset + 9)

readVarSlice(buffer, offset) ==
  Bind(readVarInt(buffer, offset), LAMBDA n :
    IF ~n.ok THEN n ELSE readSlice(buffer, n.off, n.v))

RECURSIVE readVarSlices(_, _, _, _)
\* the for loop of readVector
readVarSlices(buffer, offset, count, vector) ==
  IF count = 0 THEN Got(vector, offset)
  ELSE Bind(readVarSlice(buffer, offset), LAMBDA s :
    IF ~s.ok THEN s
    ELSE readVarSlices(buffer, s.off, count - 1, Append(vector, s.v)))

readVector(buffer, offset) ==
  Bind(readVarInt(buffer, offset), LAMBDA count :
    IF ~count.ok THEN count
    ELSE readVarSlices(buffer, count.off, count.v, <<>>))

\* one pass of the vinLen loop of fromBuffer: the input pushed
readTxIn(buffer, offset) ==
  Bind(readSlice(buffer, offset, 32), LAMBDA hash :
  Bind(readUInt32(buffer, hash.off), LAMBDA index :
    IF ~index.ok THEN index
    ELSE Bind(readVarSlice(buffer, index.off), LAMBDA script :
      IF ~script.ok THEN script
      ELSE Bind(readUInt32(buffer, script.off), LAMBDA sequence :
        IF ~sequence.ok THEN sequence
        ELSE Got([hash |-> hash.v, index |-> index.v, script |-> script.v,
                  sequence |-> sequence.v, witness |-> EMPTY_WITNESS],
                 sequence.off)))))

\* one pass of the voutLen loop of fromBuffer: the output pushed
readTxOut(buffer, offset) ==
  Bind(readUInt64(buffer, offset), LAMBDA value :
    IF ~value.ok THEN value
    ELSE Bind(readVarSlice(buffer, value.off), LAMBDA script :
      IF ~script.ok THEN script
      ELSE Got([script |-> script.v, value |-> value.v], script.off)))

RECURSIVE readIns(_, _, _, _)
\* the vinLen loop of fromBuffer
readIns(buffer, offset, n, ins) ==
  IF n = 0 THEN Got(ins, offset)
  ELSE Bind(readTxIn(buffer, offset), LAMBDA txIn :
    IF ~txIn.ok THEN txIn
    ELSE readIns(buffer, txIn.off, n - 1, Append(ins, txIn.v)))

RECURSIVE readOuts(_, _, _, _)
\* the voutLen loop of fromBuffer
readOuts(buffer, offset, n, outs) ==
  IF n = 0 THEN Got(outs, offset)
  ELSE Bind(readTxOut(buffer, offset), LAMBDA txOut :
    IF ~txOut.ok THEN txOut
    ELSE readOuts(buffer, txOut.off, n - 1, Append(outs, txOut.v)))

RECURSIVE readWitnesses(_, _, _, _)
\* the witness loop of fromBuffer: ins[i].witness = readVector()
readWitnesses(buffer, offset, ins, i) ==
  IF i > Len(ins) THEN Got(ins, offset)
  ELSE Bind(readVector(buffer, offset), LAMBDA vector :
    IF ~vector.ok THEN vector
    ELSE readWitnesses(buffer, vector.off,
                       [ins EXCEPT ![i].witness = vector.v], i + 1))

\* Lines 469-483: the witness vectors, the check that they were not
\* pointless, the locktime and the strict check of the length.
fromBufferTail(buffer, noStrict, version, hasW, ins, outs, offset) ==
  Bind(IF hasW THEN readWitnesses(buffer, offset, ins, 1) ELSE Got(ins, offset),
       LAMBDA wit :
    IF ~wit.ok THEN wit
    ELSE IF hasW /\ ~hasWitnesses([ins |-> wit.v])
      THEN Throw("Transaction has superfluous witness data")
    ELSE Bind(readUInt32(buffer, wit.off), LAMBDA locktime :
      IF ~locktime.ok THEN locktime
      ELSE IF ~noStrict /\ locktime.off # Len(buffer)
        THEN Throw("Transaction has unexpected data")
      ELSE [ok |-> TRUE,
            tx |-> [version |-> version, locktime |-> locktime.v,
                    ins |-> wit.v, outs |-> outs]]))

\* Variant of isAdvanced: the marker byte alone announces witnesses.
isAdvancedMarkerOnly(marker, flag) == marker = ADVANCED_TRANSACTION_MARKER

\* Variant of isAdvanced: the flag byte compared with the marker's value.
isAdvancedFlagAsMarker(marker, flag) ==
  marker = ADVANCED_TRANSACTION_MARKER /\ flag = ADVANCED_TRANSACTION_MARKER

\* Lines 444-445: whether the two bytes after the version are the marker
\* and the flag.
isAdvanced(marker, flag) ==
  marker = ADVANCED_TRANSACTION_MARKER /\ flag = ADVANCED_TRANSACTION_FLAG

\* Lines 450-467: the inputs and the outputs, from the offset the marker
\* and flag left.
fromBufferBody(buffer, noStrict, version, hasW, offset) ==
  Bind(readVarInt(buffer, offset), LAMBDA vinLen :
    IF ~vinLen.ok THEN vinLen
    ELSE Bind(readIns(buffer, vinLen.off, vinLen.v, <<>>), LAMBDA ins :
      IF ~ins.ok THEN ins
      ELSE Bind(readVarInt(buffer, ins.off), LAMBDA voutLen :
        IF ~voutLen.ok THEN voutLen
        ELSE Bind(readOuts(buffer, voutLen.off, voutLen.v, <<>>), LAMBDA outs :
          IF ~outs.ok THEN outs
          ELSE fromBufferTail(buffer, noStrict, version, hasW,
                              ins.v, outs.v, outs.off)))))

\* Transaction.fromBuffer: [ok |-> TRUE, tx |-> ...] or the error thrown
fromBuffer(buffer, noStrict) ==
  Bind(readInt32(buffer, 0), LAMBDA version :
    IF ~version.ok THEN version
    ELSE Bind(readUInt8(buffer, version.off), LAMBDA marker :
      IF ~marker.ok THEN marker
      ELSE Bind(readUInt8(buffer, version.off + 1), LAMBDA flag :
        IF ~flag.ok THEN flag
        ELSE fromBufferBody(buffer, noStrict, version.v,
                            isAdvanced(marker.v, flag.v),
                            IF isAdvanced(marker.v, flag.v)
                            THEN version.off + 2 ELSE version.off))))

\* ------------------------------------------------- script collaborator

OP_CODESEPARATOR == 171

OP_PUSHDATA1 == 76

OP_PUSHDATA2 == 77

OP_PUSHDATA4 == 78

\* pushdata.decode(buffer, offset) for an opcode of 1..OP_PUSHDATA4: the
\* number of bytes pushed and the size of the opcode with its length
\* field, or null when the length field runs past the end of the buffer.
\* A 4-byte length of 2^31 or more is beyond any buffer: decompile gives
\* null for it as it does for every push that runs past the end.
pushdataDecode(buffer, offset) ==
  LET opcode == buffer[offset + 1] IN
    IF opcode < OP_PUSHDATA1 THEN [null |-> FALSE, number |-> opcode, size |-> 1]
    ELSE IF opcode = OP_PUSHDATA1
      THEN IF offset + 2 > Len(buffer) THEN [null |-> TRUE]
           ELSE [null |-> FALSE, number |-> buffer[offset + 2], size |-> 2]
    ELSE IF opcode = OP_PUSHDATA2
      THEN IF offset + 3 > Len(buffer) THEN [null |-> TRUE]
           ELSE [null |-> FALSE, number |-> U16(buffer, offset + 1), size |-> 3]
    ELSE IF offset + 5 > Len(buffer) \/ buffer[offset + 5] >= 128
      THEN [null |-> TRUE]
    ELSE [null |-> FALSE, number |-> U32(buffer, offset + 1), size |-> 5]

\* pushdata.encode: the shortest opcode and length field for a push of
\* number bytes
pushdataEncode(number) ==
  IF number < OP_PUSHDATA1 THEN <<number>>
  ELSE IF number <= 255 THEN <<OP_PUSHDATA1, number>>
  ELSE IF number <= 65535 THEN <<OP_PUSHDATA2>> \o LEBytes(number, 2)
  ELSE <<OP_PUSHDATA4>> \o LEBytes(number, 4)

\* asMinimalOP(buffer) !== undefined: the push has an opcode of its own
HasMinimalOP(data) ==
  \/ Len(data) = 0
  \/ Len(data) = 1 /\ (data[1] \in 1..16 \/ data[1] = 129)

\* asMinimalOP: OP_0 for no bytes, OP_1..OP_16 (OP_RESERVED + n) for the
\* one byte n of 1..16, OP_1NEGATE for the one byte 0x81
asMinimalOP(data) ==
  IF Len(data) = 0 THEN 0
  ELSE IF data[1] = 129 THEN 79
  ELSE 80 + data[1]

RECURSIVE decompileFrom(_, _, _)
\* The while loop of bscript.decompile from offset i on, chunks being the
\* chunks pushed so far: an opcode is a chunk [op |-> n], a push a chunk
\* [data |-> bytes] unless it has a minimal opcode.  Null when a push runs
\* past the end of the script.
decompileFrom(buffer, i, chunks) ==
  IF i >= Len(buffer) THEN chunks
  ELSE IF buffer[i + 1] > 0 /\ buffer[i + 1] <= OP_PUSHDATA4
    THEN Bind(pushdataDecode(buffer, i), LAMBDA d :
      IF d.null THEN Null
      ELSE IF i + d.size + d.number > Len(buffer) THEN Null
      ELSE Bind(SubSeq(buffer, i + d.size + 1, i + d.size + d.number), LAMBDA data :
        decompileFrom(buffer, i + d.size + d.number,
                      Append(chunks, IF HasMinimalOP(data)
                                     THEN [op |-> asMinimalOP(data)]
                                     ELSE [data |-> data]))))
  ELSE decompileFrom(buffer, i + 1, Append(chunks, [op |-> buffer[i + 1]]))

\* bscript.decompile(buffer): the chunks, or Null when a push's length
\* field or payload runs past the end of the script
decompile(buffer) == decompileFrom(buffer, 0, <<>>)

\* bscript.compile of one chunk: an opcode is its byte; a push is its
\* minimal opcode if it has one, else pushdata.encode of its length and
\* the bytes
compileChunk(chunk) ==
  IF "op" \in DOMAIN chunk THEN <<chunk.op>>
  ELSE IF HasMinimalOP(chunk.data) THEN <<asMinimalOP(chunk.data)>>
  ELSE pushdataEncode(Len(chunk.data)) \o chunk.data

\* bscript.compile(chunks).  The size it allocates is the size it writes,
\* so its 'Could not decode chunks' is never thrown.
compile(chunks) == Concat([i \in 1..Len(chunks) |-> compileChunk(chunks[i])])

\* .filter((x) => x !== opcodes.OP_CODESEPARATOR): a push is a Buffer and is
\* never equal to the number
filterCodeSeparator(chunks) ==
  SelectSeq(chunks, LAMBDA x : ~("op" \in DOMAIN x /\ x.op = OP_CODESEPARATOR))

\* ------------------------------------------------------------ hash256

\* bcrypto.hash256 is a collision-free digest: the digest of a message is
\* kept symbolic, as the message tagged, so two digests are equal exactly
\* when their messages are.  No digest equals ZERO or ONE.
hash256(message) == <<"hash256", message>>

\* ------------------------------------------------------------ objects

\* hashForSignature works on records it reaches through references.  The
\* records of a call live in obj (address -> record); address 0 is the shared
\* BLANK_OUTPUT, the inputs of `this` are at 1..n and its outputs at
\* n+1..n+m.  A transaction object holds the addresses of its records.
Load(t) ==
  LET n == Len(t.ins)
      m == Len(t.outs)
  IN [obj |-> [a \in 0..(n + m) |->
                 IF a = 0 THEN BLANK_OUTPUT
                 ELSE IF a <= n THEN t.ins[a] ELSE t.outs[a - n]],
      this |-> [version |-> t.version, locktime |-> t.locktime,
                ins |-> [i \in 1..n |-> i], outs |-> [j \in 1..m |-> n + j]]]

\* What a transaction object holds, its records read through obj.
Deref(obj, t) ==
  [version |-> t.version, locktime |-> t.locktime,
   ins |-> [i \in 1..Len(t.ins) |-> obj[t.ins[i]]],
   outs |-> [j \in 1..Len(t.outs) |-> obj[t.outs[j]]]]

\* A clone that copies the arrays but not the records in them.
cloneSharingRecords(obj, t) ==
  [obj |-> obj,
   newTx |-> [version |-> t.version, locktime |-> t.locktime,
              ins |-> t.ins, outs |-> t.outs]]

\* clone(): every input and output becomes a new record (at a new address)
\* holding the same hash, script and witness values.
clone(obj, t) ==
  LET k == Cardinality(DOMAIN obj) - 1
      n == Len(t.ins)
      m == Len(t.outs)
  IN [obj |-> [a \in 0..(k + n + m) |->
                 IF a <= k THEN obj[a]
                 ELSE IF a <= k + n
                   THEN LET txIn == obj[t.ins[a - k]] IN
                          [hash |-> txIn.hash, index |-> txIn.index,
                           script |-> txIn.script, sequence |-> txIn.sequence,
                           witness |-> txIn.witness]
                   ELSE LET txOut == obj[t.outs[a - k - n]] IN
                          [script |-> txOut.script, value |-> txOut.value]],
      newTx |-> [version |-> t.version, locktime |-> t.locktime,
                 ins |-> [i \in 1..n |-> k + i],
                 outs |-> [j \in 1..m |-> k + n + j]]]

\* record.field = value, for the records at addrs
SetField(obj, addrs, field, value) ==
  [a \in DOMAIN obj |->
     IF a \in addrs THEN [obj[a] EXCEPT ![field] = value] ELSE obj[a]]

\* the addresses of the inputs other than the one at inIndex
OtherIns(t, inIndex) == {t.ins[i] : i \in (1..Len(t.ins)) \ {inIndex + 1}}

\* ------------------------------------------------------ legacy signature hash

\* Variant of outputRule: SINGLE keeps the outputs before inIndex as they
\* are instead of blanking them.
outputRuleNoBlanking(obj, txTmp, inIndex, hashType) ==
  IF BaseMode(hashType) = SIGHASH_NONE
  THEN [obj |-> SetField(obj, OtherIns(txTmp, inIndex), "sequence", UInt32(0)),
        txTmp |-> [txTmp EXCEPT !.outs = <<>>]]
  ELSE IF BaseMode(hashType) = SIGHASH_SINGLE
  THEN [obj |-> SetField(obj, OtherIns(txTmp, inIndex), "sequence", UInt32(0)),
        txTmp |-> [txTmp EXCEPT !.outs = SubSeq(txTmp.outs, 1, inIndex + 1)]]
  ELSE [obj |-> obj, txTmp |-> txTmp]

\* Lines 182-212: the rewriting of the clone's outputs and of the other
\* inputs' sequence numbers, by the base mode.
outputRule(obj, txTmp, inIndex, hashType) ==
  IF BaseMode(hashType) = SIGHASH_NONE
  THEN [obj |-> SetField(obj, OtherIns(txTmp, inIndex), "sequence", UInt32(0)),
        txTmp |-> [txTmp EXCEPT !.outs = <<>>]]
  ELSE IF BaseMode(hashType) = SIGHASH_SINGLE
  THEN [obj |-> SetField(obj, OtherIns(txTmp, inIndex), "sequence", UInt32(0)),
        txTmp |-> [txTmp EXCEPT !.outs =
                     [i \in 1..(inIndex + 1) |->
                        IF i <= inIndex THEN 0 ELSE txTmp.outs[i]]]]
  ELSE [obj |-> obj, txTmp |-> txTmp]

\* Variant of inputRule: ANYONECANPAY sets the script of the input at
\* inIndex and keeps the other inputs.
inputRuleKeepsOtherInputs(obj, txTmp, inIndex, ourScript, hashType) ==
  IF AnyoneCanPay(hashType)
  THEN [obj |-> SetField(obj, {txTmp.ins[inIndex + 1]}, "script", ourScript),
        txTmp |-> txTmp]
  ELSE [obj |-> SetField(SetField(obj, {txTmp.ins[i] : i \in 1..Len(txTmp.ins)},
                                  "script", EMPTY_SCRIPT),
                         {txTmp.ins[inIndex + 1]}, "script", ourScript),
        txTmp |-> txTmp]

\* Lines 214-224: the rewriting of the clone's inputs.
inputRule(obj, txTmp, inIndex, ourScript, hashType) ==
  IF AnyoneCanPay(hashType)
  THEN [obj |-> SetField(obj, {txTmp.ins[inIndex + 1]}, "script", ourScript),
        txTmp |-> [txTmp EXCEPT !.ins = <<txTmp.ins[inIndex + 1]>>]]
  ELSE [obj |-> SetField(SetField(obj, {txTmp.ins[i] : i \in 1..Len(txTmp.ins)},
                                  "script", EMPTY_SCRIPT),
                         {txTmp.ins[inIndex + 1]}, "script", ourScript),
        txTmp |-> txTmp]

\* A byte of an allocUnsafe buffer that nothing has written: it may hold
\* any value, and stands here as a value that is no byte.
Uninit == -1

\* Lines 227-229: a buffer of __byteLength(false) + 4 bytes, not initialised;
\* hashType goes into its last 4 bytes, then the transaction is written
\* from offset 0.  A write past the end of the buffer throws.
serializeForSignature(txTmp, hashType) ==
  Bind(__byteLength(txTmp, FALSE) + 4, LAMBDA length :
  Bind(__toBuffer(txTmp, FALSE), LAMBDA written :
  Bind(writeInt32LE(hashType), LAMBDA tail :
    IF Len(written) > length THEN Throw("RangeError")
    ELSE [ok |-> TRUE, length |-> length, offset |-> Len(written),
          buffer |-> [i \in 1..length |->
                        IF i <= Len(written) THEN written[i]
                        ELSE IF i > length - 4 THEN tail[i - (length - 4)]
                        ELSE Uninit]])))

\* The in-band return of ONE: nothing is serialized.
Sentinel(this) ==
  [ok |-> TRUE, sentinel |-> TRUE, value |-> ONE, this |-> this]

\* hashForSignature: what it returns (value), the temporary transaction it
\* serialized (txTmp), the buffer it hashed, the final write offset, and
\* `this` as the call leaves it.  Line 176 calls .filter on what
\* bscript.decompile returns: on null it throws TypeError, after the guard
\* of line 173 and before the clone and the guard of line 196.
hashForSignature(t, inIndex, prevOutScript, hashType) ==
  IF inIndex >= Len(t.ins) THEN Sentinel(t)
  ELSE Bind(decompile(prevOutScript), LAMBDA chunks :
    IF chunks = Null THEN [ok |-> FALSE, err |-> "TypeError", this |-> t]
    ELSE
    Bind(compile(filterCodeSeparator(chunks)), LAMBDA ourScript :
    Bind(Load(t), LAMBDA h :
    Bind(clone(h.obj, h.this), LAMBDA txTmp0 :
      IF BaseMode(hashType) = SIGHASH_SINGLE /\ inIndex >= Len(h.this.outs)
      THEN Sentinel(Deref(txTmp0.obj, h.this))
      ELSE
        Bind(outputRule(txTmp0.obj, txTmp0.newTx, inIndex, hashType), LAMBDA o :
        Bind(inputRule(o.obj, o.txTmp, inIndex, ourScript, hashType), LAMBDA i :
        Bind(Deref(i.obj, i.txTmp), LAMBDA txTmp :
        Bind(serializeForSignature(txTmp, hashType), LAMBDA w :
          IF ~w.ok THEN [ok |-> FALSE, err |-> w.err,
                         this |-> Deref(i.obj, h.this)]
          ELSE [ok |-> TRUE, sentinel |-> FALSE,
                value |-> hash256(w.buffer),
                buffer |-> w.buffer, offset |-> w.offset, length |-> w.length,
                txTmp |-> txTmp, ourScript |-> ourScript,
                this |-> Deref(i.obj, h.this)]))))))))

\* --------------------------------------------------- witness v0 signature hash

\* Lines 251-261
hashPrevouts(t, hashType) ==
  IF ~AnyoneCanPay(hashType)
  THEN hash256(Concat([i \in 1..Len(t.ins) |->
                         t.ins[i].hash \o writeUInt32LE(t.ins[i].index)]))
  ELSE ZERO

\* Variant of hashSequence: SIGHASH_NONE not among the modes that zero it.
hashSequenceCommitsUnderNone(t, hashType) ==
  IF ~AnyoneCanPay(hashType) /\ BaseMode(hashType) # SIGHASH_SINGLE
  THEN hash256(Concat([i \in 1..Len(t.ins) |-> writeUInt32LE(t.ins[i].sequence)]))
  ELSE ZERO

\* Lines 263-274
hashSequence(t, hashType) ==
  IF ~AnyoneCanPay(hashType)
     /\ BaseMode(hashType) # SIGHASH_SINGLE
     /\ BaseMode(hashType) # SIGHASH_NONE
  THEN hash256(Concat([i \in 1..Len(t.ins) |-> writeUInt32LE(t.ins[i].sequence)]))
  ELSE ZERO

\* Lines 276-300
hashOutputs(t, inIndex, hashType) ==
  IF BaseMode(hashType) # SIGHASH_SINGLE /\ BaseMode(hashType) # SIGHASH_NONE
  THEN hash256(Concat([i \in 1..Len(t.outs) |->
                         writeUInt64LE(t.outs[i].value)
                           \o writeVarSlice(t.outs[i].script)]))
  ELSE IF BaseMode(hashType) = SIGHASH_SINGLE /\ inIndex < Len(t.outs)
  THEN LET output == t.outs[inIndex + 1] IN
         hash256(writeUInt64LE(output.value) \o writeVarSlice(output.script))
  ELSE ZERO

\* hashForWitnessV0: the pre-image is kept as the sequence of the fields
\* written (a digest is written as the 32 bytes it stands for).  The version
\* is written first and as an unsigned field: a negative one is out of
\* writeUInt32LE's range and throws.  An inIndex with no input reads a field
\* of undefined, after that write, and throws.
hashForWitnessV0(t, inIndex, prevOutScript, value, hashType) ==
  IF t.version < 0 THEN Throw("RangeError")
  ELSE IF inIndex >= Len(t.ins) THEN Throw("TypeError")
  ELSE
    LET input == t.ins[inIndex + 1]
        tbuffer == << writeUInt32LE(UInt32(t.version)),
                      hashPrevouts(t, hashType),
                      hashSequence(t, hashType),
                      input.hash,
                      writeUInt32LE(input.index),
                      writeVarSlice(prevOutScript),
                      writeUInt64LE(value),
                      writeUInt32LE(input.sequence),
                      hashOutputs(t, inIndex, hashType),
                      writeUInt32LE(t.locktime),
                      writeUInt32LE(UInt32(hashType)) >>
    IN [ok |-> TRUE, tbuffer |-> tbuffer, value |-> hash256(tbuffer)]

\* ------------------------------------------------------ the inputs drawn

ZeroHash == [i \in 1..32 |-> 0]

Hash1 == [i \in 1..32 |-> i]

ScriptSig1 == <<2, 48, 69>>

\* 253 bytes: the shortest script whose length takes a 3-byte compact size
LongScript == [i \in 1..253 |-> 81]

\* OP_DUP OP_CODESEPARATOR <push of the two bytes ab ab> <push of the one
\* byte 01> <OP_PUSHDATA1 push of the two bytes 09 09> OP_CHECKSIG
PrevOutScript1 == <<118, 171, 2, 171, 171, 1, 1, 76, 2, 9, 9, 172>>

\* OP_DUP and a push of two bytes of which the script holds one
PrevOutScript2 == <<118, 2, 171>>

\* OP_1, the scriptSig setInputScript is given
ScriptSig2 == <<81>>

Witness1 == << <<>>, <<48, 69>> >>

\* addInput's arguments: hash, index, sequence, scriptSig.  The last one's
\* hash has 31 bytes and fails typeforce.
InputArgs ==
  { <<ZeroHash, UInt32(0), Null, Null>>,
    <<Hash1, UInt32(16909060), UInt32(5), ScriptSig1>>,
    <<SubSeq(Hash1, 1, 31), UInt32(0), UInt32(0), Null>> }

\* addOutput's arguments: scriptPubKey, value.  The last one's value is no
\* Satoshi and fails typeforce.
OutputArgs ==
  { <<EMPTY_SCRIPT, 256>>,
    <<LongScript, 513>>,
    <<EMPTY_SCRIPT, -1>> }

Witnesses == {EMPTY_WITNESS, Witness1}

\* setWitness is called on the first input (when there is none, the index
\* is out of range)
WitnessIndexes == {0}

\* setInputScript is called on the first input likewise
ScriptIndexes == {0}

ScriptSigs == {ScriptSig2}

\* The input indexes the hashers are called with: with fewer inputs, or
\* fewer outputs, than 3 the larger ones are out of range
InIndexes == {0, 1, 2}

PrevOutScripts == {PrevOutScript1, PrevOutScript2}

\* ALL, NONE, SINGLE, each with and without ANYONECANPAY, and SINGLE with
\* bit 0x20 set, which the base-mode mask drops
HashTypes == {1, 2, 3, 129, 130, 131, 35}

Values == {5000}

\* ------------------------------------------------- bytes from the outside

\* A compact size in a chosen form: 1 is the minimal form, 3, 5 and 9 are
\* the fd, fe and ff forms whatever the number.
WireVarInt(n, form) ==
  IF form = 3 THEN <<253>> \o LEBytes(n, 2)
  ELSE IF form = 5 THEN <<254>> \o LEBytes(n, 4)
  ELSE IF form = 9 THEN <<255>> \o LEBytes(n, 4) \o <<0, 0, 0, 0>>
  ELSE writeVarInt(n)

WireSites == {"vin", "scriptSig", "vout", "scriptPubKey", "witness", "item"}

\* How a sender may depart from this encoder: one kind of compact size in a
\* longer form; marker and flag written though no input has a witness; a
\* byte after the locktime; the last byte missing; another version and
\* locktime.
WireVariants ==
  [kind : {"form"}, site : WireSites, form : {3, 5, 9}]
    \cup {[kind |-> k, site |-> "none", form |-> 1] :
            k \in {"canonical", "marker", "trailing", "truncated", "header"}}

\* The serialization of t a sender departing by v puts on the wire.
Wire(t, v) ==
  LET F(site) == IF v.kind = "form" /\ v.site = site THEN v.form ELSE 1
      hasW == hasWitnesses(t) \/ v.kind = "marker"
      slice(site, b) == WireVarInt(Len(b), F(site)) \o b
      body ==
        writeInt32LE(IF v.kind = "header" THEN -1 ELSE t.version)
        \o (IF hasW THEN <<0, 1>> ELSE <<>>)
        \o WireVarInt(Len(t.ins), F("vin"))
        \o Concat([i \in 1..Len(t.ins) |->
                     t.ins[i].hash \o writeUInt32LE(t.ins[i].index)
                       \o slice("scriptSig", t.ins[i].script)
                       \o writeUInt32LE(t.ins[i].sequence)])
        \o WireVarInt(Len(t.outs), F("vout"))
        \o Concat([i \in 1..Len(t.outs) |->
                     writeUInt64LE(t.outs[i].value)
                       \o slice("scriptPubKey", t.outs[i].script)])
        \o (IF hasW
            THEN Concat([i \in 1..Len(t.ins) |->
                   WireVarInt(Len(t.ins[i].witness), F("witness"))
                     \o Concat([j \in 1..Len(t.ins[i].witness) |->
                                  slice("item", t.ins[i].witness[j])])])
            ELSE <<>>)
        \o writeUInt32LE(IF v.kind = "header" THEN UInt32(16909060) ELSE t.locktime)
  IN Bind(body, LAMBDA b :
       IF v.kind = "trailing" THEN b \o <<0>>
       ELSE IF v.kind = "truncated" THEN SubSeq(b, 1, Len(b) - 1)
       ELSE b)

\* ------------------------------------------------------------ operations

\* new Transaction()
Init ==
  /\ tx = [version |-> 1, locktime |-> UInt32(0), ins |-> <<>>, outs |-> <<>>]
  /\ ret = [op |-> "new"]

TypeError(op) == [op |-> op, ok |-> FALSE, err |-> "TypeError"]

IsUInt32(i) == i[1] \in 0..65535 /\ i[2] \in 0..65535

\* types.Hash256bit, types.UInt32, types.maybe(types.UInt32)
addInputTypes(hash, index, sequence) ==
  Len(hash) = 32 /\ IsUInt32(index) /\ (sequence = Null \/ IsUInt32(sequence))

\* addInput(hash, index, sequence, scriptSig): a null sequence becomes
\* DEFAULT_SEQUENCE, a null scriptSig the empty script.
AddInput ==
  /\ Len(tx.ins) < MaxIns
  /\ \E a \in InputArgs :
       IF addInputTypes(a[1], a[2], a[3])
       THEN /\ tx' = [tx EXCEPT !.ins = Append(@,
                        [hash |-> a[1], index |-> a[2],
                         script |-> IF a[4] = Null THEN EMPTY_SCRIPT ELSE a[4],
                         sequence |-> IF a[3] = Null THEN DEFAULT_SEQUENCE
                                      ELSE a[3],
                         witness |-> EMPTY_WITNESS])]
            /\ ret' = [op |-> "addInput", ok |-> TRUE, value |-> Len(tx.ins)]
       ELSE /\ tx' = tx
            /\ ret' = TypeError("addInput")

\* addOutput(scriptPubKey, value); types.Satoshi wants a value of 0 or more
AddOutput ==
  /\ Len(tx.outs) < MaxOuts
  /\ \E a \in OutputArgs :
       IF a[2] >= 0
       THEN /\ tx' = [tx EXCEPT !.outs = Append(@, [script |-> a[1], value |-> a[2]])]
            /\ ret' = [op |-> "addOutput", ok |-> TRUE, value |-> Len(tx.outs)]
       ELSE /\ tx' = tx
            /\ ret' = TypeError("addOutput")

\* setWitness(index, witness): no input at index throws
SetWitness ==
  \E index \in WitnessIndexes, witness \in Witnesses :
    IF index < Len(tx.ins)
    THEN /\ tx' = [tx EXCEPT !.ins[index + 1].witness = witness]
         /\ ret' = [op |-> "setWitness", ok |-> TRUE]
    ELSE /\ tx' = tx
         /\ ret' = TypeError("setWitness")

\* setInputScript(index, scriptSig): this.ins[index].script = scriptSig; an
\* index with no input sets a property of undefined and throws.
SetInputScript ==
  \E index \in ScriptIndexes, scriptSig \in ScriptSigs :
    IF index < Len(tx.ins)
    THEN /\ tx' = [tx EXCEPT !.ins[index + 1].script = scriptSig]
         /\ ret' = [op |-> "setInputScript", ok |-> TRUE]
    ELSE /\ tx' = tx
         /\ ret' = TypeError("setInputScript")

\* toBuffer() (witness allowed) and the serialization the hash getter takes
\* (witness not allowed): __toBuffer(undefined, undefined, allowWitness).
\* length is the size the buffer is allocated with, offset the final offset.
ToBuffer ==
  \E allowWitness \in BOOLEAN :
    \E written \in {__toBuffer(tx, allowWitness)} :
      /\ ret' = [op |-> "toBuffer", ok |-> TRUE, allowWitness |-> allowWitness,
                 length |-> __byteLength(tx, allowWitness),
                 offset |-> Len(written), value |-> written]
      /\ tx' = tx

\* What fromBuffer(buffer) leaves: the transaction it returns becomes the
\* one held; a throw leaves the one held.
Decode(buffer, source) ==
  \E r \in {fromBuffer(buffer, FALSE)} :
    /\ tx' = IF r.ok THEN r.tx ELSE tx
    /\ ret' = [op |-> "fromBuffer", ok |-> r.ok, buffer |-> buffer,
               source |-> source, err |-> IF r.ok THEN Null ELSE r.err]

\* Transaction.fromBuffer applied to the buffer toBuffer has just returned
FromBufferEncoded ==
  /\ ret.op = "toBuffer"
  /\ Decode(ret.value, IF ret.allowWitness THEN "toBuffer" ELSE "base")

\* The last call was a construction step.  The codec and the hashers read
\* the transaction held and nothing of the last call, so bytes received and
\* hasher arguments are drawn once per transaction built, after a
\* construction step (a setWitness that throws is one, and changes nothing).
Constructed ==
  ret.op \in {"new", "addInput", "addOutput", "setInputScript", "setWitness"}

\* Transaction.fromBuffer applied to bytes received
FromBufferWire ==
  /\ Constructed
  /\ \E v \in WireVariants : \E buffer \in {Wire(tx, v)} : Decode(buffer, v.kind)

\* Transaction.fromBuffer applied to bytes received that carry the sender's
\* version and locktime
FromBufferHeader ==
  /\ Constructed
  /\ \E v \in {w \in WireVariants : w.kind = "header"} :
       \E buffer \in {Wire(tx, v)} : Decode(buffer, v.kind)

\* hashForSignature(inIndex, prevOutScript, hashType)
HashForSignature ==
  /\ Constructed
  /\ \E inIndex \in InIndexes, prevOutScript \in PrevOutScripts,
     hashType \in HashTypes :
       \E r \in {hashForSignature(tx, inIndex, prevOutScript, hashType)} :
         /\ tx' = r.this
         /\ ret' = [op |-> "hashForSignature", inIndex |-> inIndex,
                    prevOutScript |-> prevOutScript, hashType |-> hashType,
                    r |-> [f \in DOMAIN r \ {"this"} |-> r[f]]]

\* hashForWitnessV0(inIndex, prevOutScript, value, hashType)
HashForWitnessV0 ==
  /\ Constructed
  /\ \E inIndex \in InIndexes, prevOutScript \in {PrevOutScript1},
     value \in Values, hashType \in HashTypes :
    /\ ret' = [op |-> "hashForWitnessV0", inIndex |-> inIndex,
               prevOutScript |-> prevOutScript, value |-> value,
               hashType |-> hashType,
               r |-> hashForWitnessV0(tx, inIndex, prevOutScript, value, hashType)]
    /\ tx' = tx

\* The codec: construction, encoding, decoding.
Next ==
  \/ AddInput
  \/ AddOutput
  \/ SetInputScript
  \/ SetWitness
  \/ ToBuffer
  \/ FromBufferEncoded
  \/ FromBufferWire

Spec == Init /\ [][Next]_vars

\* The legacy signature hasher over the transactions construction builds.
SigNext ==
  \/ AddInput
  \/ AddOutput
  \/ SetInputScript
  \/ SetWitness
  \/ ToBuffer
  \/ HashForSignature

SigSpec == Init /\ [][SigNext]_vars

\* The witness signature hasher over the transactions construction builds,
\* from new Transaction() or from a transaction decoded.
V0Next ==
  \/ AddInput
  \/ AddOutput
  \/ SetInputScript
  \/ SetWitness
  \/ FromBufferHeader
  \/ HashForWitnessV0

V0Spec == Init /\ [][V0Next]_vars

\* ------------------------------------------------------------------ claims

\* The call that has just returned is a toBuffer() of the transaction held,
\* and the call that returns next is fromBuffer of the bytes it returned.
DecodesOwnEncoding ==
  /\ ret.op = "toBuffer"
  /\ ret'.op = "fromBuffer"
  /\ ret'.source \in {"toBuffer", "base"}
  /\ ret'.buffer = ret.value

\* C1 as stated: decoding the witness-allowed encoding of any transaction,
\* zero inputs included, succeeds and returns an equal transaction.
C1_RoundTripEveryTransaction ==
  [][(DecodesOwnEncoding /\ ret.allowWitness) => (ret'.ok /\ tx' = tx)]_vars

\* C1 amended: decoding the witness-allowed encoding of a transaction that
\* has an input, or whose number of outputs is not 1, succeeds and returns a
\* transaction equal to it (version, locktime, every input and output).
C1_RoundTrip ==
  [][(DecodesOwnEncoding /\ ret.allowWitness
        /\ (Len(tx.ins) > 0 \/ Len(tx.outs) # 1))
       => (ret'.ok /\ tx' = tx)]_vars

\* A transaction with a witness stack and outputs was encoded with the
\* marker and flag, decoded, and came back equal.
C1_Witness ==
  /\ ret.op = "fromBuffer" /\ ret.source = "toBuffer" /\ ret.ok
  /\ Len(tx.ins) = MaxIns /\ Len(tx.outs) > 0
  /\ \E i \in 1..Len(tx.ins) : tx.ins[i].witness = Witness1
  /\ ret.buffer[5] = 0 /\ ret.buffer[6] = 1
  /\ ret.buffer = __toBuffer(tx, TRUE)

\* C2: after a strict fromBuffer has accepted a byte string, toBuffer() of
\* the transaction it returned gives back that byte string, byte for byte.
C2_ReencodeGivesInput ==
  [][(ret.op = "fromBuffer" /\ ret.ok /\ ret'.op = "toBuffer" /\ ret'.allowWitness)
       => ret'.value = ret.buffer]_vars

\* C3: the encoder's final offset is the size __byteLength gave the buffer,
\* witness allowed or not; hashForSignature never writes past its buffer,
\* and whenever it serializes (it returned neither ONE nor threw on a
\* prevOutScript that does not decompile) the serialization ends exactly 4
\* bytes before the buffer's end, the last 4 bytes still hold hashType, and
\* no byte is left unwritten.
C3_SizeConsistency ==
  /\ ret.op = "toBuffer" => ret.offset = ret.length
  /\ (ret.op = "hashForSignature" /\ ~ret.r.ok) => ret.r.err # "RangeError"
  /\ (ret.op = "hashForSignature" /\ ret.r.ok) =>
       /\ ~ret.r.sentinel =>
            /\ ret.r.offset + 4 = ret.r.length
            /\ Len(ret.r.buffer) = ret.r.length
            /\ SubSeq(ret.r.buffer, ret.r.length - 3, ret.r.length)
                 = <<ret.hashType, 0, 0, 0>>
            /\ \A i \in 1..Len(ret.r.buffer) : ret.r.buffer[i] \in 0..255

\* A SIGHASH_SINGLE pre-image with a blanked output and a 253-byte script
\* was serialized.
C3_Witness ==
  /\ ret.op = "hashForSignature" /\ ret.r.ok /\ ~ret.r.sentinel
  /\ ret.hashType = 3 /\ ret.inIndex = 1
  /\ ret.r.txTmp.outs[1] = BLANK_OUTPUT
  /\ ret.r.txTmp.outs[2].script = LongScript
  /\ \E i \in 1..Len(tx.ins) : tx.ins[i].witness # <<>>

C5_SentinelIsLittleEndianOne ==
  (ret.op = "hashForSignature" /\ ret.inIndex >= Len(tx.ins)) =>
    /\ Len(ret.r.value) = 32
    /\ ret.r.value[1] = 1
    /\ \A i \in 2..32 : ret.r.value[i] = 0

\* The inputs addInput and setWitness can have built.
InputStates ==
  { [hash |-> a[1], index |-> a[2],
     script |-> IF a[4] = Null THEN EMPTY_SCRIPT ELSE a[4],
     sequence |-> IF a[3] = Null THEN <<65535, 65535>> ELSE a[3],
     witness |-> w] :
      a \in {x \in InputArgs : Len(x[1]) = 32}, w \in Witnesses }

\* The transactions one change of the inputs away from t that keep the
\* hash, index and sequence of the input at position k: another input
\* replaced, an input appended, the last input dropped, the script or the
\* witness of the input at k replaced.  Any two transactions with the same
\* version, locktime, outputs and record at k are a chain of such changes
\* apart, so agreement along every change is agreement of any two.
Neighbours(t, k) ==
  {[t EXCEPT !.ins[j] = p] : j \in (1..Len(t.ins)) \ {k + 1}, p \in InputStates}
  \cup {[t EXCEPT !.ins = Append(@, p)] : p \in InputStates}
  \cup (IF Len(t.ins) > k + 1
        THEN {[t EXCEPT !.ins = SubSeq(@, 1, Len(@) - 1)]}
        ELSE {})
  \cup {[t EXCEPT !.ins[k + 1].script = s, !.ins[k + 1].witness = w] :
          s \in {EMPTY_SCRIPT, ScriptSig1, LongScript}, w \in Witnesses}

\* C6: with ANYONECANPAY set, hashForSignature hashes the same pre-image
\* (and returns the same value) for any transaction with the same version,
\* locktime, outputs and the same hash, index and sequence at inIndex,
\* whatever its other inputs and whatever the script and witness at inIndex.
C6_AnyoneCanPayIsolation ==
  (ret.op = "hashForSignature" /\ ret.hashType \in {129, 130, 131}
     /\ ret.inIndex < Len(tx.ins)) =>
    \A t2 \in Neighbours(tx, ret.inIndex) :
      \A r2 \in {hashForSignature(t2, ret.inIndex, ret.prevOutScript, ret.hashType)} :
        /\ r2.ok = ret.r.ok
        /\ ret.r.ok =>
             /\ r2.sentinel = ret.r.sentinel
             /\ r2.value = ret.r.value
             /\ ~r2.sentinel => r2.buffer = ret.r.buffer

\* ANYONECANPAY|ALL hashed input 1 of a transaction whose input 0 has a
\* witness and a sequence of its own: the pre-image holds one input.
C6_Witness ==
  /\ ret.op = "hashForSignature" /\ ret.hashType = 129 /\ ret.inIndex = 1
  /\ Len(tx.ins) = 2 /\ Len(tx.outs) = 2
  /\ tx.ins[1].witness = Witness1 /\ tx.ins[1].hash # tx.ins[2].hash
  /\ ret.r.ok /\ ~ret.r.sentinel /\ Len(ret.r.txTmp.ins) = 1
  /\ ret.r.buffer[5] = 1

\* C8: a hashForSignature call leaves the transaction as it was: version,
\* locktime, the inputs (their number and each one's hash, index, script,
\* sequence, witness) and the outputs (their number and each one's value
\* and script).
C8_HashForSignatureFrame ==
  [][ret'.op = "hashForSignature" => tx' = tx]_vars

\* NONE has rewritten the clone (no outputs, another input's sequence 0,
\* its script empty) while the transaction held still has them.
C8_Witness ==
  /\ ret.op = "hashForSignature" /\ ret.hashType = 2 /\ ret.inIndex = 0
  /\ ret.r.ok /\ ~ret.r.sentinel
  /\ Len(tx.ins) = 2 /\ Len(tx.outs) = 2 /\ Len(ret.r.txTmp.outs) = 0
  /\ tx.ins[2].sequence # <<0, 0>> /\ ret.r.txTmp.ins[2].sequence = <<0, 0>>
  /\ tx.ins[2].script # <<>> /\ ret.r.txTmp.ins[2].script = <<>>
  /\ tx.ins[1].witness # <<>>

\* C9: for SINGLE without ANYONECANPAY and inIndex an index of an input and
\* of an output, the transaction serialized (there is none when the
\* prevOutScript does not decompile) has inIndex + 1 outputs, those
\* before inIndex blanked (empty script, value bytes ff x 8), the one at
\* inIndex the original; as many inputs as the original, the others with
\* sequence 0 and an empty script, the one at inIndex with its own
\* sequence and the script ourScript.
C9_SinglePreimageShape ==
  (ret.op = "hashForSignature" /\ ret.hashType % 32 = 3
     /\ (ret.hashType \div 128) % 2 = 0
     /\ ret.inIndex < Len(tx.ins) /\ ret.inIndex < Len(tx.outs)
     /\ ret.r.ok) =>
    /\ ~ret.r.sentinel
    /\ Len(ret.r.txTmp.outs) = ret.inIndex + 1
    /\ \A i \in 1..ret.inIndex :
         ret.r.txTmp.outs[i] =
           [script |-> <<>>,
            valueBuffer |-> <<255, 255, 255, 255, 255, 255, 255, 255>>]
    /\ ret.r.txTmp.outs[ret.inIndex + 1] = tx.outs[ret.inIndex + 1]
    /\ Len(ret.r.txTmp.ins) = Len(tx.ins)
    /\ \A i \in 1..Len(tx.ins) :
         /\ ret.r.txTmp.ins[i].hash = tx.ins[i].hash
         /\ ret.r.txTmp.ins[i].index = tx.ins[i].index
         /\ i # ret.inIndex + 1 =>
              /\ ret.r.txTmp.ins[i].sequence = <<0, 0>>
              /\ ret.r.txTmp.ins[i].script = <<>>
         /\ i = ret.inIndex + 1 =>
              /\ ret.r.txTmp.ins[i].sequence = tx.ins[i].sequence
              /\ ret.r.txTmp.ins[i].script = ret.r.ourScript
    /\ ret.prevOutScript = PrevOutScript1 => ret.r.ourScript = <<118, 2, 171, 171, 81, 2, 9, 9, 172>>
    /\ ret.r.buffer = __toBuffer(ret.r.txTmp, FALSE) \o <<ret.hashType, 0, 0, 0>>

\* SINGLE hashed input 1 of two, with two outputs: output 0 is blanked.
C9_Witness ==
  /\ ret.op = "hashForSignature" /\ ret.hashType = 3 /\ ret.inIndex = 1
  /\ ret.r.ok
  /\ Len(tx.ins) = 2 /\ Len(tx.outs) = 2
  /\ tx.ins[1].sequence # <<0, 0>> /\ tx.ins[1].script # <<>>
  /\ tx.outs[1].script # <<>>
  /\ ret.r.txTmp.outs[1] = BLANK_OUTPUT

\* C10: in the pre-image hashForWitnessV0 builds (a negative version throws
\* and builds none), for an inIndex that is an
\* index of an input: hashPrevouts is ZERO with ANYONECANPAY and otherwise
\* the hash256 of every input's hash and index; hashSequence is ZERO with
\* ANYONECANPAY or base mode SINGLE or NONE and otherwise the hash256 of
\* every input's sequence; hashOutputs is the hash256 of every output when
\* the base mode is neither SINGLE nor NONE, of the output at inIndex alone
\* when it is SINGLE and there is such an output, and ZERO otherwise.
C10_SubDigests ==
  (ret.op = "hashForWitnessV0" /\ ret.inIndex < Len(tx.ins) /\ ret.r.ok) =>
    LET acp == ret.hashType >= 128
        base == ret.hashType % 32
        le32(f) == LEBytes(f[2], 2) \o LEBytes(f[1], 2)
        prevouts == Concat([i \in 1..Len(tx.ins) |->
                      tx.ins[i].hash \o le32(tx.ins[i].index)])
        sequences == Concat([i \in 1..Len(tx.ins) |-> le32(tx.ins[i].sequence)])
        out(i) == LEBytes(tx.outs[i].value, 4) \o <<0, 0, 0, 0>>
                    \o writeVarSlice(tx.outs[i].script)
        outputs == Concat([i \in 1..Len(tx.outs) |-> out(i)])
        zero == [i \in 1..32 |-> 0]
    IN /\ ret.r.tbuffer[2] = IF acp THEN zero ELSE <<"hash256", prevouts>>
       /\ ret.r.tbuffer[3] = IF acp \/ base = 3 \/ base = 2 THEN zero
                             ELSE <<"hash256", sequences>>
       /\ ret.r.tbuffer[9] =
            IF base # 3 /\ base # 2 THEN <<"hash256", outputs>>
            ELSE IF base = 3 /\ ret.inIndex < Len(tx.outs)
              THEN <<"hash256", out(ret.inIndex + 1)>>
            ELSE zero

\* SINGLE hashed input 1 of two with two outputs: hashPrevouts is a digest,
\* hashSequence is ZERO, hashOutputs is the digest of output 1 alone.
C10_Witness ==
  /\ ret.op = "hashForWitnessV0" /\ ret.hashType = 3 /\ ret.inIndex = 1
  /\ Len(tx.ins) = 2 /\ Len(tx.outs) = 2
  /\ ret.r.ok
  /\ ret.r.tbuffer[2] # ZERO /\ ret.r.tbuffer[3] = ZERO
  /\ ret.r.tbuffer[9] # ZERO

\* C7 as stated: decoding the encoding of any transaction with no input,
\* whatever its number of outputs, does not return an equal transaction.
C7_NoZeroInputDecodes ==
  [][(DecodesOwnEncoding /\ Len(tx.ins) = 0) => ~(ret'.ok /\ tx' = tx)]_vars

\* C7 amended: decoding the encoding of a transaction with no input and
\* exactly one output does not return an equal transaction: the count 00
\* and the output count 01 are taken as marker and flag.
C7_ZeroInputOneOutput ==
  [][(DecodesOwnEncoding /\ Len(tx.ins) = 0 /\ Len(tx.outs) = 1)
       => ~(ret'.ok /\ tx' = tx)]_vars

\* The encoding of a transaction with no input and one output was decoded:
\* its bytes 4 and 5 are 00 01, and fromBuffer threw.
C7_Witness ==
  /\ ret.op = "fromBuffer" /\ ret.source \in {"toBuffer", "base"}
  /\ Len(tx.ins) = 0 /\ Len(tx.outs) = 1
  /\ ret.buffer = __toBuffer(tx, TRUE)
  /\ ret.buffer[5] = 0 /\ ret.buffer[6] = 1
  /\ ~ret.ok /\ ret.err = "Transaction has superfluous witness data"

====
